---- MODULE Spec2Model ----
(***************************************************************************)
(* Model of the Spring Boot documentation scraper: the navigation-tree     *)
(* extraction (recursiveDepthSearch, recursiveAnchorProcess and the link   *)
(* rewriting of getSpringBootDocsNavData) and the batch fetch loop of      *)
(* main() with its progress accounting and result aggregation.             *)
(*                                                                         *)
(* Strings that the code inspects character by character (hrefs, base      *)
(* URLs) are sequences of one-character strings.  Three specifications     *)
(* share the variables:                                                    *)
(*   Spec        main() from the batch loop on, over any URL list          *)
(*   SpecNav     main() from the navigation fetch to the first batch,      *)
(*               over any bounded navigation document                      *)
(*   SpecResolve the href rewriting callback applied to any bounded href   *)
(***************************************************************************)
EXTENDS Integers, Sequences, FiniteSets, TLC

VARIABLES
    pc,              \* position of main()
    dom,             \* the navigation page as parsed by jsdom
    refinedData,     \* the navigation tree returned by getSpringBootDocsNavData
    navFile,         \* contents of nav-data.json
    articleUrls,     \* main: articleUrls
    i,               \* main: loop index of the batch loop
    tasks,           \* per URL: state of its promise chain and its value
    completedCount,  \* main: completedCount
    progress,        \* the ProgressBar object
    articleDataArr,  \* main: articleDataArr
    delays,          \* number of setTimeout(500) pauses issued
    outOfOrder,      \* history: some task completed before an earlier sibling
    allArticleData,  \* main: allArticleData
    files,           \* per-article files written
    rBase, rHref, rOut \* SpecResolve: base URL, input href, successive outputs

vars == <<pc, dom, refinedData, navFile, articleUrls, i, tasks, completedCount,
          progress, articleDataArr, delays, outOfOrder, allArticleData, files,
          rBase, rHref, rOut>>

navVars == <<dom, refinedData, navFile>>
resVars == <<rBase, rHref, rOut>>

----------------------------------------------------------------------------
(* Bounds *)
MaxUrls == 7
MaxItems == 2
MaxDepth == 2
MaxLen == 3

(* Program constants *)
BATCH_SIZE == 5

Min(a, b) == IF a < b THEN a ELSE b

\* null / undefined
Null == [ok |-> FALSE]

PathChars == <<"a", "b", "c", "d", "e", "f", "g", "i", "j", "k">>

\* "https://docs.spring.io/spring-boot", the argument of getSpringBootDocsNavData
DocsBase == <<"h", ":", "/", "/", "s">>

----------------------------------------------------------------------------
(* ProgressBar (progress-utils.js) *)

NewProgressBar(total) == [total |-> total, current |-> 0, isComplete |-> FALSE]

complete(pb) == [pb EXCEPT !.current = pb.total]

update(pb, current) ==
    LET pb1 == IF pb.current >= pb.total /\ ~pb.isComplete
               THEN complete([pb EXCEPT !.isComplete = TRUE])
               ELSE pb
    IN [pb1 EXCEPT !.current = current]

----------------------------------------------------------------------------
(* Document fetch *)

Titles == {"T1", "T2"}
\* what the server and the page can give: a transport error, a page without
\* article.doc, or an article with a title
Responses == {"fetchError", "noArticle"} \cup Titles

\* getSpringBootDocsArticleData: the article record, or the error rethrown
\* by its catch block
getSpringBootDocsArticleData(url, response) ==
    IF response \in Titles
    THEN [ok |-> TRUE, url |-> url, title |-> response]
    ELSE [ok |-> FALSE, message |-> response]

\* .then(articleData => {...}) of the batch promise
ThenHandler(count, pb, articleData) ==
    [count |-> count + 1, pb |-> update(pb, count + 1),
     value |-> articleData, rejected |-> FALSE]

CatchNoCount(count, pb, error) ==
    [count |-> count, pb |-> pb, value |-> Null, rejected |-> FALSE]

CatchRethrow(count, pb, error) ==
    [count |-> count + 1, pb |-> update(pb, count + 1),
     value |-> Null, rejected |-> TRUE]

\* .catch(error => {...}) of the batch promise
CatchHandler(count, pb, error) ==
    [count |-> count + 1, pb |-> update(pb, count + 1),
     value |-> Null, rejected |-> FALSE]

\* articleUrls.slice(i, i + BATCH_SIZE), as the set of (1-based) positions
Batch(urls, idx) == (idx + 1) .. Min(idx + BATCH_SIZE, Len(urls))

\* the batch a position belongs to (0-based)
BatchOf(t) == (t - 1) \div BATCH_SIZE

AnySettled(ts, b) == \E t \in b : ts[t].st = "done"

\* Promise.all(batchPromises) is fulfilled
AllSettled(ts, b) == \A t \in b : ts[t].st = "done"

RECURSIVE FilterBoolean(_, _, _)
\* batchResults.filter(Boolean), batchResults in the order of the batch
FilterBoolean(ts, lo, hi) ==
    IF lo > hi THEN <<>>
    ELSE (IF ts[lo].val.ok THEN <<ts[lo].val>> ELSE <<>>)
         \o FilterBoolean(ts, lo + 1, hi)

Unshift(arr, items) == items \o arr

\* articleDataArr.push(...items)
Push(arr, items) == arr \o items

IndexPutFirst(index, articleData) ==
    IF articleData.title \in DOMAIN index THEN index
    ELSE [k \in DOMAIN index \cup {articleData.title} |->
            IF k = articleData.title THEN [url |-> articleData.url] ELSE index[k]]

\* allArticleData[articleData.title] = {...}
IndexPut(index, articleData) ==
    [k \in DOMAIN index \cup {articleData.title} |->
        IF k = articleData.title THEN [url |-> articleData.url] ELSE index[k]]

RECURSIVE BuildIndex(_, _)
\* the articleDataArr.map callback run over the first n articles
BuildIndex(arr, n) ==
    IF n = 0 THEN <<>>
    ELSE IndexPut(BuildIndex(arr, n - 1), arr[n])

\* the files the map callback writes: <index + 1>_<title>.json
FileNames(arr) == {<<k, arr[k].title>> : k \in 1..Len(arr)}

IdleTasks(n) == [t \in 1..n |-> [st |-> "idle", val |-> Null]]

----------------------------------------------------------------------------
(* main(), the batch loop *)

\* for (...; i < articleUrls.length; ...) { batch = slice; batch.map(fetch) ...
StartBatch ==
    /\ pc = "loop"
    /\ i < Len(articleUrls)
    /\ tasks' = [t \in DOMAIN tasks |->
                   IF t \in Batch(articleUrls, i)
                   THEN [st |-> "inflight", val |-> Null] ELSE tasks[t]]
    /\ pc' = "awaitAll"
    /\ UNCHANGED <<articleUrls, i, completedCount, progress, articleDataArr,
                   delays, outOfOrder, allArticleData, files>>
    /\ UNCHANGED navVars /\ UNCHANGED resVars

\* the loop condition fails
LoopExit ==
    /\ pc = "loop"
    /\ i >= Len(articleUrls)
    /\ pc' = "save"
    /\ UNCHANGED <<articleUrls, i, tasks, completedCount, progress,
                   articleDataArr, delays, outOfOrder, allArticleData, files>>
    /\ UNCHANGED navVars /\ UNCHANGED resVars

\* the request of task t ends and getSpringBootDocsArticleData settles
FetchSettle(t, response) ==
    /\ pc = "awaitAll"
    /\ tasks[t].st = "inflight"
    /\ tasks' = [tasks EXCEPT ![t] =
                   [st |-> "settled",
                    val |-> getSpringBootDocsArticleData(articleUrls[t], response)]]
    /\ UNCHANGED <<pc, articleUrls, i, completedCount, progress, articleDataArr,
                   delays, outOfOrder, allArticleData, files>>
    /\ UNCHANGED navVars /\ UNCHANGED resVars

\* the .then / .catch callback of task t runs
Handler(t) ==
    /\ pc = "awaitAll"
    /\ tasks[t].st = "settled"
    /\ LET h == IF tasks[t].val.ok
                THEN ThenHandler(completedCount, progress, tasks[t].val)
                ELSE CatchHandler(completedCount, progress, tasks[t].val)
       IN /\ completedCount' = h.count
          /\ progress' = h.pb
          /\ tasks' = [tasks EXCEPT ![t] = [st |-> "done", val |-> h.value]]
          /\ pc' = IF h.rejected THEN "crashed" ELSE pc
    /\ outOfOrder' = (outOfOrder \/
                        \E u \in Batch(articleUrls, i) : u < t /\ tasks[u].st # "done")
    /\ UNCHANGED <<articleUrls, i, articleDataArr, delays, allArticleData, files>>
    /\ UNCHANGED navVars /\ UNCHANGED resVars

\* await Promise.all resumes: push the results, then start the 500 ms timer
BatchJoin ==
    /\ pc = "awaitAll"
    /\ AllSettled(tasks, Batch(articleUrls, i))
    /\ articleDataArr' = Push(articleDataArr,
                              FilterBoolean(tasks, i + 1,
                                            Min(i + BATCH_SIZE, Len(articleUrls))))
    /\ delays' = delays + 1
    /\ pc' = "sleep"
    /\ UNCHANGED <<articleUrls, i, tasks, completedCount, progress, outOfOrder,
                   allArticleData, files>>
    /\ UNCHANGED navVars /\ UNCHANGED resVars

\* the timer fires: i += BATCH_SIZE and back to the loop condition
TimerFire ==
    /\ pc = "sleep"
    /\ i' = i + BATCH_SIZE
    /\ pc' = "loop"
    /\ UNCHANGED <<articleUrls, tasks, completedCount, progress, articleDataArr,
                   delays, outOfOrder, allArticleData, files>>
    /\ UNCHANGED navVars /\ UNCHANGED resVars

\* step 6 of main: build allArticleData and write the files
SaveResults ==
    /\ pc = "save"
    /\ allArticleData' = BuildIndex(articleDataArr, Len(articleDataArr))
    /\ files' = FileNames(articleDataArr)
    /\ pc' = "done"
    /\ UNCHANGED <<articleUrls, i, tasks, completedCount, progress,
                   articleDataArr, delays, outOfOrder>>
    /\ UNCHANGED navVars /\ UNCHANGED resVars

\* the URL of the t-th task of a run over an arbitrary URL list
UrlOf(t) == DocsBase \o <<"/", PathChars[t]>>

\* main() after step 4 (URL collection and ProgressBar construction)
Init ==
    /\ pc = "loop"
    /\ dom = Null
    /\ refinedData = Null
    /\ navFile = Null
    /\ \E n \in 0..MaxUrls : articleUrls = [t \in 1..n |-> UrlOf(t)]
    /\ i = 0
    /\ tasks = IdleTasks(Len(articleUrls))
    /\ completedCount = 0
    /\ progress = NewProgressBar(Len(articleUrls))
    /\ articleDataArr = <<>>
    /\ delays = 0
    /\ outOfOrder = FALSE
    /\ allArticleData = <<>>
    /\ files = {}
    /\ rBase = <<>> /\ rHref = <<>> /\ rOut = <<>>

Next ==
    \/ StartBatch
    \/ LoopExit
    \/ \E t \in DOMAIN tasks : \E r \in Responses : FetchSettle(t, r)
    \/ \E t \in DOMAIN tasks : Handler(t)
    \/ BatchJoin
    \/ TimerFire
    \/ SaveResults

Spec == Init /\ [][Next]_vars

----------------------------------------------------------------------------
(* The navigation page.  dom.status is "fetchError" when the GET of the    *)
(* base URL fails, "noNav" when the page has no nav.nav-menu, else "ok".   *)
(* Element 0 is nav.nav-menu; elements 1..dom.n are its li.nav-item        *)
(* descendants (each a child of a ul.nav-list) numbered in document order; *)
(* parent[j] is the closest enclosing one, marker[j] the data-depth        *)
(* attribute.  anchor[e] describes the <a> that belongs to e itself and    *)
(* precedes e's nested items: "none", "in" (relative href), "ext"          *)
(* (absolute href, class link-external) or "nohref" (no href attribute).   *)

AnchorKinds == {"none", "in", "ext", "nohref"}
NoElem == 0 - 1
NameOf(e) == IF e = 0 THEN "r" ELSE PathChars[e]

RECURSIVE Ancestors(_, _)
Ancestors(parent, j) ==
    IF j = 0 THEN {} ELSE {parent[j]} \cup Ancestors(parent, parent[j])

\* document order: the parent of j is j - 1 or an element enclosing j - 1
DocumentOrder(n, parent) ==
    \A j \in 1..n : parent[j] = j - 1 \/ parent[j] \in Ancestors(parent, j - 1)

ParentFns(n) == {p \in [1..n -> 0..(n - 1)] : DocumentOrder(n, p)}

Pages(n) ==
    {[status |-> "ok", n |-> n, parent |-> p, marker |-> m, anchor |-> a] :
        p \in ParentFns(n), m \in [1..n -> 1..MaxDepth], a \in [0..n -> AnchorKinds]}

ErrorPages ==
    {[status |-> st, n |-> 0, parent |-> <<>>, marker |-> <<>>,
      anchor |-> [e \in {0} |-> "none"]] : st \in {"fetchError", "noNav"}}

\* scenario 1 of the specification: root -> [A, B (external), C -> [D]]
ExamplePage ==
    [status |-> "ok", n |-> 4, parent |-> <<0, 0, 0, 3>>, marker |-> <<1, 1, 1, 2>>,
     anchor |-> [e \in 0..4 |-> IF e = 0 THEN "nohref" ELSE IF e = 2 THEN "ext" ELSE "in"]]

\* B -> [A -> [X]] where B and A both carry data-depth 1 and X data-depth 2
NestedTwicePage ==
    [status |-> "ok", n |-> 3, parent |-> <<0, 1, 2>>, marker |-> <<1, 1, 2>>,
     anchor |-> [e \in 0..3 |-> "in"]]

\* the descendants of element e
Descendants(d, e) == {j \in 1..d.n : e \in Ancestors(d.parent, j)}

RECURSIVE SortedSeq(_)
\* the elements of a set in document order
SortedSeq(S) ==
    IF S = {} THEN <<>>
    ELSE LET lo == CHOOSE x \in S : \A y \in S : x <= y
         IN <<lo>> \o SortedSeq(S \ {lo})

\* elem.querySelector("a"): the first anchor inside elem, or NoElem (null)
querySelectorA(d, elem) ==
    LET as == {j \in {elem} \cup Descendants(d, elem) : d.anchor[j] # "none"}
    IN IF as = {} THEN NoElem ELSE CHOOSE x \in as : \A y \in as : x <= y

\* elem.querySelectorAll(`ul.nav-list > li.nav-item[data-depth="${depth}"]`)
querySelectorAllItems(d, elem, depth) ==
    SortedSeq({j \in Descendants(d, elem) : d.marker[j] = depth})

\* a.href as jsdom gives it for a page without a URL
AnchorHref(d, a) ==
    CASE d.anchor[a] = "in" -> <<NameOf(a)>>
      [] d.anchor[a] = "ext" -> <<"h", ":", NameOf(a)>>
      [] OTHER -> <<>>

ReadAnchorLenient(d, a) ==
    IF a = NoElem
    THEN [ok |-> TRUE, title |-> "", href |-> <<>>, external |-> FALSE]
    ELSE [ok |-> TRUE, title |-> NameOf(a), href |-> AnchorHref(d, a),
          external |-> (d.anchor[a] = "ext")]

\* { title: a.textContent, href: a.href, external: ... }; a TypeError when a is null
ReadAnchor(d, a) ==
    IF a = NoElem
    THEN Null
    ELSE [ok |-> TRUE, title |-> NameOf(a), href |-> AnchorHref(d, a),
          external |-> (d.anchor[a] = "ext")]

ChildDepthSame(depth) == depth

\* the depth argument of the recursive call
ChildDepth(depth) == depth + 1

RECURSIVE recursiveDepthSearch(_, _, _)
\* the node built for elem, or Null when a TypeError is thrown.  The fields
\* elem and depth record the arguments of the call that built the node.
recursiveDepthSearch(d, elem, depth) ==
    LET data == ReadAnchor(d, querySelectorA(d, elem))
        childElems == querySelectorAllItems(d, elem, depth)
        childData == [k \in DOMAIN childElems |->
                        recursiveDepthSearch(d, childElems[k], ChildDepth(depth))]
    IN IF ~data.ok THEN Null
       ELSE IF \E k \in DOMAIN childData : ~childData[k].ok THEN Null
       ELSE [ok |-> TRUE, title |-> data.title, href |-> data.href,
             external |-> data.external, childData |-> childData,
             elem |-> elem, depth |-> depth]

RECURSIVE Flatten(_)
Flatten(seqs) == IF seqs = <<>> THEN <<>> ELSE Head(seqs) \o Flatten(Tail(seqs))

RECURSIVE recursiveAnchorProcessPre(_)
recursiveAnchorProcessPre(data) ==
    <<data>> \o Flatten([k \in DOMAIN data.childData |->
                            recursiveAnchorProcessPre(data.childData[k])])

RECURSIVE recursiveAnchorProcess(_)
\* the nodes in the order in which the callback is invoked on them
recursiveAnchorProcess(data) ==
    Flatten([k \in DOMAIN data.childData |->
                recursiveAnchorProcess(data.childData[k])]) \o <<data>>

\* baseURL.endsWith("/") ? baseURL.slice(0, -1) : baseURL
StripSlash(baseURL) ==
    IF baseURL # <<>> /\ baseURL[Len(baseURL)] = "/"
    THEN SubSeq(baseURL, 1, Len(baseURL) - 1) ELSE baseURL

\* the callback of step 6 of getSpringBootDocsNavData
ResolveHref(href, baseURL) ==
    IF href # <<>>
    THEN baseURL \o (IF href[1] = "/" THEN <<>> ELSE <<"/">>) \o href
    ELSE href

RECURSIVE ResolveTree(_, _)
\* recursiveAnchorProcess with that callback: every node's href rewritten in place
ResolveTree(data, baseURL) ==
    [data EXCEPT !.href = ResolveHref(data.href, baseURL),
                 !.childData = [k \in DOMAIN data.childData |->
                                  ResolveTree(data.childData[k], baseURL)]]

\* getSpringBootDocsNavData(baseURL): the resolved tree, or Null when it throws
getSpringBootDocsNavData(d, baseURL) ==
    IF d.status # "ok" THEN Null
    ELSE LET tree == recursiveDepthSearch(d, 0, 1)
         IN IF tree.ok THEN ResolveTree(tree, StripSlash(baseURL)) ELSE Null

\* step 3 of main: the hrefs the callback pushes
CollectArticleUrls(data) ==
    LET visited == recursiveAnchorProcess(data)
        kept == SelectSeq(visited, LAMBDA x : x.href # <<>> /\ ~x.external)
    IN [k \in DOMAIN kept |-> kept[k].href]

----------------------------------------------------------------------------
(* main(), from the navigation fetch to the batch loop *)

\* step 1 of main: await getSpringBootDocsNavData(...); a throw ends main
GetNavData ==
    /\ pc = "nav"
    /\ LET r == getSpringBootDocsNavData(dom, DocsBase)
       IN /\ refinedData' = r
          /\ pc' = IF r.ok THEN "writeNav" ELSE "aborted"
    /\ UNCHANGED <<dom, navFile, articleUrls, i, tasks, completedCount, progress,
                   articleDataArr, delays, outOfOrder, allArticleData, files>>
    /\ UNCHANGED resVars

\* step 2 of main: write nav-data.json
WriteNavFile ==
    /\ pc = "writeNav"
    /\ navFile' = refinedData
    /\ pc' = "collect"
    /\ UNCHANGED <<dom, refinedData, articleUrls, i, tasks, completedCount, progress,
                   articleDataArr, delays, outOfOrder, allArticleData, files>>
    /\ UNCHANGED resVars

\* steps 3 and 4 of main: collect the URLs, create the progress bar
CollectUrls ==
    /\ pc = "collect"
    /\ articleUrls' = CollectArticleUrls(refinedData)
    /\ tasks' = IdleTasks(Len(articleUrls'))
    /\ progress' = NewProgressBar(Len(articleUrls'))
    /\ completedCount' = 0
    /\ articleDataArr' = <<>>
    /\ i' = 0
    /\ pc' = "loop"
    /\ UNCHANGED <<dom, refinedData, navFile, delays, outOfOrder, allArticleData, files>>
    /\ UNCHANGED resVars

InitNav ==
    /\ pc = "nav"
    /\ \/ \E n \in 0..MaxItems : dom \in Pages(n)
       \/ dom \in ErrorPages \cup {ExamplePage, NestedTwicePage}
    /\ refinedData = Null
    /\ navFile = Null
    /\ articleUrls = <<>>
    /\ i = 0
    /\ tasks = <<>>
    /\ completedCount = 0
    /\ progress = NewProgressBar(0)
    /\ articleDataArr = <<>>
    /\ delays = 0
    /\ outOfOrder = FALSE
    /\ allArticleData = <<>>
    /\ files = {}
    /\ rBase = <<>> /\ rHref = <<>> /\ rOut = <<>>

NextNav ==
    \/ GetNavData
    \/ WriteNavFile
    \/ CollectUrls
    \/ StartBatch
    \/ LoopExit

SpecNav == InitNav /\ [][NextNav]_vars

----------------------------------------------------------------------------
(* The href rewriting of getSpringBootDocsNavData on its own *)

Chars == {"h", ":", "/"}
Hrefs == UNION {[1..n -> Chars] : n \in 0..MaxLen}
BaseURLs == {DocsBase, DocsBase \o <<"/">>}

\* the callback rewrites an href
ResolveOnce ==
    /\ pc = "resolve"
    /\ rOut = <<>>
    /\ rOut' = <<ResolveHref(rHref, StripSlash(rBase))>>
    /\ UNCHANGED <<pc, rBase, rHref, articleUrls, i, tasks, completedCount, progress,
                   articleDataArr, delays, outOfOrder, allArticleData, files>>
    /\ UNCHANGED navVars

\* the callback rewrites its own output
ResolveAgain ==
    /\ pc = "resolve"
    /\ Len(rOut) = 1
    /\ rOut' = Append(rOut, ResolveHref(rOut[1], StripSlash(rBase)))
    /\ UNCHANGED <<pc, rBase, rHref, articleUrls, i, tasks, completedCount, progress,
                   articleDataArr, delays, outOfOrder, allArticleData, files>>
    /\ UNCHANGED navVars

InitResolve ==
    /\ pc = "resolve"
    /\ rBase \in BaseURLs
    /\ rHref \in Hrefs
    /\ rOut = <<>>
    /\ dom = Null /\ refinedData = Null /\ navFile = Null
    /\ articleUrls = <<>>
    /\ i = 0
    /\ tasks = <<>>
    /\ completedCount = 0
    /\ progress = NewProgressBar(0)
    /\ articleDataArr = <<>>
    /\ delays = 0
    /\ outOfOrder = FALSE
    /\ allArticleData = <<>>
    /\ files = {}

NextResolve ==
    \/ ResolveOnce
    \/ ResolveAgain

SpecResolve == InitResolve /\ [][NextResolve]_vars

\* an absolute URL: a scheme (letters) followed by a colon
IsAbsoluteURL(h) ==
    \E k \in 1..(Len(h) - 1) : h[k + 1] = ":" /\ \A j \in 1..k : h[j] = "h"

\* C6 (as claimed): resolution leaves an absolute href unchanged, turns a
\* relative href starting with "/" into b + h and any other (non-empty)
\* relative href into b + "/" + h, and resolving its own output changes
\* nothing.
C6_ResolveIdempotent ==
    LET b == StripSlash(rBase)
    IN /\ Len(rOut) >= 1 =>
             /\ IsAbsoluteURL(rHref) => rOut[1] = rHref
             /\ (~IsAbsoluteURL(rHref) /\ rHref # <<>>) =>
                   rOut[1] = IF rHref[1] = "/" THEN b \o rHref ELSE b \o <<"/">> \o rHref
       /\ Len(rOut) = 2 => rOut[2] = rOut[1]

----------------------------------------------------------------------------
(* Properties of the navigation stage (specification SpecNav) *)

RECURSIVE AllNodes(_)
\* the nodes of a navigation tree
AllNodes(data) ==
    {data} \cup UNION {AllNodes(data.childData[k]) : k \in DOMAIN data.childData}

RECURSIVE Paths(_)
\* the nodes of a tree, each named by the child indices leading to it
Paths(data) ==
    {<<>>} \cup UNION {{<<k>> \o q : q \in Paths(data.childData[k])} :
                          k \in DOMAIN data.childData}

RECURSIVE NodeAt(_, _)
NodeAt(data, path) ==
    IF path = <<>> THEN data ELSE NodeAt(data.childData[Head(path)], Tail(path))

IsProperPrefix(a, b) == Len(a) < Len(b) /\ SubSeq(b, 1, Len(a)) = a

\* a lies in an earlier sibling subtree than b
LeftOf(a, b) ==
    \E k \in 1..Min(Len(a), Len(b)) :
        SubSeq(a, 1, k - 1) = SubSeq(b, 1, k - 1) /\ a[k] < b[k]

\* a comes before b when every node precedes its descendants
PreBefore(a, b) == IsProperPrefix(a, b) \/ LeftOf(a, b)
\* a comes before b when every node follows its descendants
PostBefore(a, b) == IsProperPrefix(b, a) \/ LeftOf(a, b)

Collected == pc \in {"loop", "awaitAll", "save"}
Fetchable(data) ==
    {q \in Paths(data) : NodeAt(data, q).href # <<>> /\ ~NodeAt(data, q).external}
Abs(name) == DocsBase \o <<"/", name>>

\* C8 (as claimed): the fetch list holds the hrefs of the in-domain non-root
\* nodes, one per node, every node before its descendants, siblings in
\* source order; for root -> [A, B (external), C -> [D]] it is [A, C, D].
C8_FlattenPreOrderWithoutRoot ==
    Collected =>
        LET E == Fetchable(refinedData) \ {<<>>}
        IN /\ Len(articleUrls) = Cardinality(E)
           /\ \A q \in E :
                 articleUrls[1 + Cardinality({r \in E : PreBefore(r, q)})]
                    = NodeAt(refinedData, q).href
           /\ dom = ExamplePage => articleUrls = <<Abs("a"), Abs("c"), Abs("d")>>

\* C8 (amended): the fetch list holds the hrefs of the non-external nodes
\* with a non-empty href, the root included, one per node, every node after
\* its descendants, siblings in source order; for root (no href) ->
\* [A, B (external), C -> [D]] it is [A, D, C].
C8_FlattenPostOrderWithRoot ==
    Collected =>
        LET E == Fetchable(refinedData)
        IN /\ Len(articleUrls) = Cardinality(E)
           /\ \A q \in E :
                 articleUrls[1 + Cardinality({r \in E : PostBefore(r, q)})]
                    = NodeAt(refinedData, q).href
           /\ dom = ExamplePage => articleUrls = <<Abs("a"), Abs("d"), Abs("c")>>

\* the example tree has been flattened
C8_Witness ==
    /\ Collected
    /\ dom = ExamplePage
    /\ Len(articleUrls) = 3

ChildElems(node) == [k \in DOMAIN node.childData |-> node.childData[k].elem]

\* C9 (as claimed): every container is extracted with a depth equal to its
\* own depth marker, and the children of a container extracted at depth d
\* are the items whose marker is d + 1, in source order.
C9_DepthEqualsMarker ==
    refinedData.ok =>
        /\ refinedData.depth = 1
        /\ \A x \in AllNodes(refinedData) :
              /\ x.elem # 0 => x.depth = dom.marker[x.elem]
              /\ ChildElems(x) =
                    SortedSeq({j \in Descendants(dom, x.elem) : dom.marker[j] = x.depth + 1})

\* C9 (amended): the root is extracted with depth 1 and every nested
\* container with a depth one greater than its own depth marker; the
\* children of a container extracted at depth d are the items nested inside
\* it (at any level) whose marker is d, in source order, each extracted with
\* depth d + 1.
C9_DepthIsMarkerPlusOne ==
    refinedData.ok =>
        /\ refinedData.depth = 1 /\ refinedData.elem = 0
        /\ \A x \in AllNodes(refinedData) :
              /\ x.elem # 0 => x.depth = dom.marker[x.elem] + 1
              /\ ChildElems(x) =
                    SortedSeq({j \in Descendants(dom, x.elem) : dom.marker[j] = x.depth})
              /\ \A k \in DOMAIN x.childData : x.childData[k].depth = x.depth + 1

\* a tree with a grandchild: markers 1 and 2 extracted with depths 2 and 3
C9_Witness ==
    /\ refinedData.ok
    /\ \E x \in AllNodes(refinedData) :
          /\ x.elem # 0 /\ x.depth = 2
          /\ x.childData # <<>>
          /\ x.childData[1].depth = 3

RECURSIVE Calls(_, _, _)
\* the elements recursiveDepthSearch is (or would be) called on
Calls(d, elem, depth) ==
    {elem} \cup UNION {Calls(d, j, depth + 1) :
                          j \in {c \in Descendants(d, elem) : d.marker[c] = depth}}

NothingAfterNav ==
    /\ pc \in {"nav", "aborted"}
    /\ refinedData = Null /\ navFile = Null
    /\ articleUrls = <<>> /\ tasks = <<>>

HasAnchorInside(e) == \E j \in {e} \cup Descendants(dom, e) : dom.anchor[j] # "none"

\* C10 (as claimed): if any navigation container, root or nested item, has
\* no anchor of its own, the run aborts: no tree is returned or written and
\* no fetch is initiated.
C10_AbortOnMissingOwnAnchor ==
    (dom.status = "ok" /\ \E e \in 0..dom.n : dom.anchor[e] = "none")
        => NothingAfterNav

\* C10 (amended): if any container that extraction visits contains no anchor
\* at all, neither its own nor one of a nested item, the run aborts: no tree
\* is returned or written and no fetch is initiated; a parsed page aborts
\* in no other case.
C10_AbortOnNoAnchorInside ==
    /\ (dom.status = "ok" /\ \E e \in Calls(dom, 0, 1) : ~HasAnchorInside(e))
          => NothingAfterNav
    /\ pc = "aborted" => NothingAfterNav
    /\ (pc = "aborted" /\ dom.status = "ok")
          => \E e \in Calls(dom, 0, 1) : ~HasAnchorInside(e)

\* the run aborted on a nested item without any anchor, the root having one
C10_Witness ==
    /\ pc = "aborted"
    /\ dom.status = "ok"
    /\ HasAnchorInside(0)
    /\ \E e \in Calls(dom, 0, 1) : e # 0 /\ ~HasAnchorInside(e)

----------------------------------------------------------------------------
(* Properties of the batch loop (specification Spec) *)

InFlight == {t \in DOMAIN tasks : tasks[t].st = "inflight"}
Succeeded == {t \in DOMAIN tasks : tasks[t].st = "done" /\ tasks[t].val.ok}
Failed == {t \in DOMAIN tasks : tasks[t].st = "done" /\ ~tasks[t].val.ok}
NumBatches == (Len(articleUrls) + BATCH_SIZE - 1) \div BATCH_SIZE
\* position in articleUrls of a URL of the list (the URLs of Init are distinct)
TaskOf(url) == CHOOSE t \in DOMAIN articleUrls : articleUrls[t] = url

\* C1: no fetch of a later batch is initiated until every fetch of every
\* earlier batch has settled, and at most BATCH_SIZE fetches are in flight
\* (initiated, not yet settled) in any reachable state.
C1_BatchesNeverOverlap ==
    /\ \A t1 \in DOMAIN tasks : \A t2 \in DOMAIN tasks :
          (BatchOf(t1) < BatchOf(t2) /\ tasks[t2].st # "idle")
             => tasks[t1].st \in {"settled", "done"}
    /\ Cardinality(InFlight) <= BATCH_SIZE

\* the second batch has been initiated
C1_Witness ==
    \E t \in DOMAIN tasks : BatchOf(t) = 1 /\ tasks[t].st = "inflight"

\* C2: every task increments completedCount exactly once when it settles,
\* on success and on failure alike, the progress bar is updated with the
\* new value, and after the loop the counter equals the number of tasks.
C2_CounterCountsEverySettledTask ==
    /\ completedCount = Cardinality(Succeeded) + Cardinality(Failed)
    /\ progress.current = completedCount
    /\ progress.total = Len(articleUrls)
    /\ pc \in {"save", "done"} => completedCount = Len(articleUrls)

\* a finished run over two batches with failures and successes
C2_Witness ==
    /\ pc = "done"
    /\ Len(articleUrls) > BATCH_SIZE
    /\ Failed # {} /\ Succeeded # {}
    /\ completedCount = Len(articleUrls)

\* C3: a failing fetch (transport error or missing article container) never
\* escapes the batch loop; its siblings keep their own outcome and can
\* still settle, the batch is still joined, later batches are still
\* started, and the run only ends with every task settled.
C3_FailureContained ==
    /\ pc # "crashed"
    /\ \A t \in DOMAIN tasks :
          /\ tasks[t].val.ok => tasks[t].val.url = articleUrls[t]
          /\ (pc = "awaitAll" /\ tasks[t].st = "inflight")
                => \A r \in Responses : ENABLED FetchSettle(t, r)
          /\ (pc = "awaitAll" /\ tasks[t].st = "settled") => ENABLED Handler(t)
    /\ (pc = "awaitAll" /\ AllSettled(tasks, Batch(articleUrls, i))) => ENABLED BatchJoin
    /\ (pc = "loop" /\ i < Len(articleUrls)) => ENABLED StartBatch
    /\ pc \in {"save", "done"} => \A t \in DOMAIN tasks : tasks[t].st = "done"

\* task 1 failed, its sibling 2 and task 6 of the next batch succeeded
C3_Witness ==
    /\ pc = "done"
    /\ Len(articleUrls) > BATCH_SIZE
    /\ 1 \in Failed /\ 2 \in Succeeded /\ (BATCH_SIZE + 1) \in Succeeded

\* C4: articleDataArr is in URL-list order, whatever the completion order:
\* its documents' positions in articleUrls strictly increase, and after the
\* loop it holds exactly the successful tasks.
C4_ResultsInTaskOrder ==
    /\ \A a \in DOMAIN articleDataArr : \A b \in DOMAIN articleDataArr :
          a < b => TaskOf(articleDataArr[a].url) < TaskOf(articleDataArr[b].url)
    /\ pc \in {"save", "done"} =>
          /\ Len(articleDataArr) = Cardinality(Succeeded)
          /\ \A t \in Succeeded :
                \E a \in DOMAIN articleDataArr : articleDataArr[a] = tasks[t].val

\* every task of two batches succeeded, and not in list order
C4_Witness ==
    /\ pc = "done"
    /\ outOfOrder
    /\ Len(articleUrls) > BATCH_SIZE
    /\ Len(articleDataArr) = Len(articleUrls)

\* C5 (as claimed): the pause is issued only when more batches remain, so a
\* run of k >= 1 batches issues k - 1 pauses.
C5_DelayOnlyBetweenBatches ==
    /\ pc = "sleep" => i + BATCH_SIZE < Len(articleUrls)
    /\ (pc = "done" /\ NumBatches >= 1) => delays = NumBatches - 1

\* C7 (as claimed): the index has as many entries as there were successes.
C7_IndexSizeEqualsSuccesses ==
    pc = "done" => Cardinality(DOMAIN allArticleData) = Cardinality(Succeeded)

SuccessTitles == {tasks[t].val.title : t \in Succeeded}
\* the last successful task, in list order, whose document has title k
LastWith(k) == CHOOSE t \in Succeeded :
                  /\ tasks[t].val.title = k
                  /\ \A u \in Succeeded : tasks[u].val.title = k => u <= t

\* C7 (amended): the index has one entry per distinct title among the
\* successes, holding the last success with that title; so it has as many
\* entries as successes exactly when their titles are pairwise distinct.
C7_IndexOnePerTitle ==
    pc = "done" =>
        /\ DOMAIN allArticleData = SuccessTitles
        /\ \A k \in SuccessTitles : allArticleData[k].url = articleUrls[LastWith(k)]
        /\ (Cardinality(DOMAIN allArticleData) = Cardinality(Succeeded))
              <=> (\A t \in Succeeded : \A u \in Succeeded :
                      tasks[t].val.title = tasks[u].val.title => t = u)
        /\ Cardinality(files) = Cardinality(Succeeded)

\* two successes share a title and a third has another
C7_Witness ==
    /\ pc = "done"
    /\ Cardinality(Succeeded) = 3
    /\ Cardinality(DOMAIN allArticleData) = 2

====
